---- MODULE Spec2Model ----
(***************************************************************************)
(* A state-machine model of the event responder dispatch engine of         *)
(* packages/react-dom/src/events/DOMEventResponderSystem.js.               *)
(*                                                                         *)
(* The engine is single-threaded.  Its module-level variables are the      *)
(* state; every loop iteration of the traversal, every Responder Context   *)
(* operation that a running callback performs, and every return or throw   *)
(* of a callback is one action.  Responder callbacks are user code: what   *)
(* they do is a nondeterministic choice among the context operations.      *)
(***************************************************************************)
EXTENDS Integers, Sequences, FiniteSets, TLC

(***************************************************************************)
(* Bounds of the model.                                                    *)
(***************************************************************************)
\* context operations all callbacks of one cycle may perform together
MaxOps == 3
\* addRootEventTypes and removeRootEventTypes calls of one cycle
MaxRootOps == 1
\* timers (Symbol tokens) created over a run
MaxTimers == 2

(***************************************************************************)
(* The fixture: a fiber chain  h1 -> E1 -> h3 -> E2 -> h5 -> E3 -> null    *)
(* (child to parent), where h* are host components and E* are event        *)
(* components whose stateNode is the event component instance 1, 2, 3.     *)
(* Instances 1 and 3 share responder "A", instance 2 has responder "B".    *)
(***************************************************************************)
Null == 0
Instances == {1, 2, 3}
Fibers == {1, 2, 3, 4, 5, 6}
EventTypes == {"click", "move"}
Responders == {"A", "B"}

\* fiber.tag
FiberTag(node) == IF node % 2 = 0 THEN "EventComponent" ELSE "HostComponent"
\* fiber.return
FiberReturn(node) == IF node + 1 \in Fibers THEN node + 1 ELSE Null
\* fiber.stateNode of an event component fiber
FiberStateNode(node) == node \div 2
\* the fibers a native event can target: none, or a host component
TargetFibers == {Null} \cup {n \in Fibers : FiberTag(n) = "HostComponent"}

\* eventComponentInstance.responder
ResponderOf(inst) == IF inst = 2 THEN "B" ELSE "A"
\* responder.targetEventTypes
TargetEventTypesOf(responder) ==
  IF responder = "A" THEN <<"click", "move">> ELSE <<"click">>
\* responder.rootEventTypes (the statically declared ones)
StaticRootEventTypesOf(responder) ==
  IF responder = "A" THEN <<"click">> ELSE <<"move">>
\* responder.stopLocalPropagation
StopLocalPropagation(responder) == responder = "A"
\* the optional handlers a responder declares
HandlersOf(responder) ==
  IF responder = "A"
    THEN {"onEventCapture", "onEvent", "onRootEvent", "onOwnershipChange",
          "onUnmount"}
    ELSE {"onEventCapture", "onEvent", "onRootEvent"}
HasHandler(inst, handler) == handler \in HandlersOf(ResponderOf(inst))

(***************************************************************************)
(* JavaScript Set: iteration is in insertion order, add of a member is a   *)
(* no-op, delete keeps the order of the others.                            *)
(***************************************************************************)
Range(seq) == {seq[k] : k \in 1..Len(seq)}
SetAdd(seq, x) == IF x \in Range(seq) THEN seq ELSE Append(seq, x)
SetDelete(seq, x) == SelectSeq(seq, LAMBDA y : y # x)
Reverse(seq) == [k \in 1..Len(seq) |-> seq[Len(seq) + 1 - k]]

(***************************************************************************)
(* Inputs of the context operations.                                       *)
(***************************************************************************)
EventObjects == {"e1", "e2"}
Listeners == {"l1", "l2"}
NoListener == "none"
Delays == {10, 20}
RootEventTypeLists == {<<"click">>, <<"move">>, <<"click", "move">>}
Tokens == 1..MaxTimers

VARIABLES
  \* ---- module-level state of the engine
  currentOwner,          \* OwnershipSlot: Null or an instance
  currentInstance,       \* Null or the instance whose callback runs
  currentEventQueue,     \* [open, events, discrete]; open = FALSE models null
  eventListeners,        \* event object -> listener recorded for it
  rootEventTypesToEventComponentInstances,  \* event type -> ordered set
  instanceRootEventTypes,                   \* instance.rootEventTypes
  ownershipChangeListeners,                 \* ordered set of instances
  currentTimers,         \* [isNull, map]: delay -> timeout of this cycle
  activeTimeouts,        \* timer token -> timeout (Null: no entry)
  timeouts,              \* the ResponderTimeout objects and their host timers
  timerCount,            \* Symbol() tokens created so far
  \* ---- position of the running cycle
  cycle,                 \* "none", "dispatch", "timers", "unmount": the open cycle
  pc,                    \* "idle", "capture", "bubble", "root", "timers", "flush", "finally"
  topLevelType,          \* event type of the running dispatch
  lifecycle,             \* instance -> "mounted", "unmounted" (unmountEventResponder
                         \* returned) or "failed" (it was left by a throw)
  unmounting,            \* the instance unmountEventResponder runs for, or Null
  targetEventResponderInstances,
  rootEventResponderInstances,
  propagatedEventResponders,
  timersArr,             \* processTimers: the timers the firing runs
  i,                     \* loop index of the running phase (1-based)
  stack,                 \* frames of the callbacks and notification passes in progress
  ops,                   \* context operations performed in this cycle
  \* ---- history of the running (or last) cycle, read by the properties only
  log,                   \* callbacks invoked by the cycle: [phase, inst, owner]
  emitted,               \* accepted emits: [event, listener, discrete]
  batch,                 \* what the flush handed to the batching collaborator
  cycleTokens,           \* timer tokens created in this cycle
  cancelled,             \* timer tokens clearTimeout was called with
  rootBucket,            \* the registry bucket of the type when the root phase began
  heldBy,                \* owner at dispatch start while it has not changed since
  passes,                \* notification passes started in this cycle, or by
                         \* unmountEventResponder after the cycle of onUnmount
  firstRequest,          \* first requestOwnership call since the slot was last cleared
  lastStep               \* what the last step did

engineVars == <<currentOwner, currentInstance, currentEventQueue, eventListeners,
                rootEventTypesToEventComponentInstances, instanceRootEventTypes,
                ownershipChangeListeners, currentTimers, activeTimeouts, timeouts,
                timerCount>>
cycleVars == <<cycle, pc, topLevelType, lifecycle, unmounting, targetEventResponderInstances,
               rootEventResponderInstances, propagatedEventResponders,
               timersArr, i, stack, ops>>
historyVars == <<log, emitted, batch, cycleTokens, cancelled, rootBucket, heldBy, passes, firstRequest,
                lastStep>>
vars == <<engineVars, cycleVars, historyVars>>

(***************************************************************************)
(* Pure functions of the engine.                                           *)
(***************************************************************************)
\* createEventQueue(); NoQueue models currentEventQueue = null
createEventQueue == [open |-> TRUE, events |-> <<>>, discrete |-> FALSE]
NoQueue == [open |-> FALSE, events |-> <<>>, discrete |-> FALSE]

\* getTargetEventTypes: the set of the top-level types of a responder
getTargetEventTypes(eventTypes) == Range(eventTypes)

\* the ownership test of the two instance collectors
OwnerAdmits(owner, inst) == owner = Null \/ owner = inst

\* getTargetEventResponderInstances: walk from the target fiber to the root
RECURSIVE WalkTargetFibers(_, _, _)
WalkTargetFibers(owner, type, node) ==
  IF node = Null THEN <<>>
  ELSE LET inst == FiberStateNode(node)
           here == IF /\ FiberTag(node) = "EventComponent"
                      /\ OwnerAdmits(owner, inst)
                      /\ type \in getTargetEventTypes(TargetEventTypesOf(ResponderOf(inst)))
                   THEN <<inst>> ELSE <<>>
       IN  here \o WalkTargetFibers(owner, type, FiberReturn(node))

UnfilteredTargetInstances(owner, type, targetFiber) ==
  WalkTargetFibers(Null, type, targetFiber)
getTargetEventResponderInstances(owner, type, targetFiber) ==
  WalkTargetFibers(owner, type, targetFiber)

\* getRootEventResponderInstances: the bucket of the type, owner-filtered
ReversedRootInstances(owner, registry, type) ==
  Reverse(SelectSeq(registry[type], LAMBDA inst : owner = Null \/ owner = inst))
getRootEventResponderInstances(owner, registry, type) ==
  SelectSeq(registry[type], LAMBDA inst : OwnerAdmits(owner, inst))

\* addRootEventTypesForComponentInstance, on [reg, irt]
RECURSIVE addRootEventTypesForComponentInstance(_, _, _)
addRootEventTypesForComponentInstance(st, inst, types) ==
  IF types = <<>> THEN st
  ELSE addRootEventTypesForComponentInstance(
         [reg |-> [st.reg EXCEPT ![Head(types)] = SetAdd(@, inst)],
          irt |-> [st.irt EXCEPT ![inst] = @ \cup {Head(types)}]],
         inst, Tail(types))

\* mountEventResponder, on the ordered set of ownership listeners
mountEventResponder(listeners, inst) ==
  IF HasHandler(inst, "onOwnershipChange") THEN SetAdd(listeners, inst) ELSE listeners

\* the registries after the fixture's instances were mounted, children first
RECURSIVE MountAll(_, _)
MountAll(st, inst) ==
  IF inst \notin Instances THEN st
  ELSE LET r == addRootEventTypesForComponentInstance(
                  [reg |-> st.reg, irt |-> st.irt], inst,
                  StaticRootEventTypesOf(ResponderOf(inst)))
       IN  MountAll([reg |-> r.reg, irt |-> r.irt,
                     ocl |-> mountEventResponder(st.ocl, inst)], inst + 1)
Mounted == MountAll([reg |-> [t \in EventTypes |-> <<>>],
                     irt |-> [n \in Instances |-> {}],
                     ocl |-> <<>>], 1)

(***************************************************************************)
(* Frames of the stack and labels of the steps.                            *)
(***************************************************************************)
CallbackKinds == {"capture", "bubble", "root", "ownership", "timer", "unmount",
                  "async"}
CallbackFrame(kind, inst) ==
  [kind |-> kind, inst |-> inst, list |-> <<>>, idx |-> 0, prev |-> Null, ret |-> FALSE]
\* triggerOwnershipListeners: listeningInstances, loop index, previousInstance,
\* and the value the calling context operation returns after the pass
NotifyFrame(list, prev, ret) ==
  [kind |-> "notify", inst |-> Null, list |-> list, idx |-> 0, prev |-> prev, ret |-> ret]
Top == stack[Len(stack)]
Pop(stk) == SubSeq(stk, 1, Len(stk) - 1)
InCallback == stack # <<>> /\ Top.kind \in CallbackKinds

\* a step label: the operation, the acting instance, the value returned, whether
\* the operation raised a fault, the owner before the step, and an argument
Label(op, inst, ret, arg) ==
  [op |-> op, inst |-> inst, ret |-> ret, fault |-> FALSE,
   owner |-> currentOwner, arg |-> arg]
FaultLabel(op, inst, arg) ==
  [op |-> op, inst |-> inst, ret |-> FALSE, fault |-> TRUE,
   owner |-> currentOwner, arg |-> arg]
NoRequest == [inst |-> Null, ret |-> FALSE]
LogEntry(phase, inst, arg) ==
  [phase |-> phase, inst |-> inst, owner |-> currentOwner, arg |-> arg]

(***************************************************************************)
(* Initial state: the module was loaded and the fixture mounted.           *)
(***************************************************************************)
Init ==
  /\ currentOwner = Null
  /\ currentInstance = Null
  /\ currentEventQueue = NoQueue
  /\ eventListeners = [e \in EventObjects |-> NoListener]
  /\ rootEventTypesToEventComponentInstances = Mounted.reg
  /\ instanceRootEventTypes = Mounted.irt
  /\ ownershipChangeListeners = Mounted.ocl
  /\ currentTimers = [isNull |-> FALSE, map |-> [d \in Delays |-> Null]]
  /\ activeTimeouts = [t \in Tokens |-> Null]
  /\ timeouts = <<>>
  /\ timerCount = 0
  /\ cycle = "none"
  /\ pc = "idle"
  /\ topLevelType = "click"
  /\ lifecycle = [n \in Instances |-> "mounted"]
  /\ unmounting = Null
  /\ targetEventResponderInstances = <<>>
  /\ rootEventResponderInstances = <<>>
  /\ propagatedEventResponders = {}
  /\ timersArr = <<>>
  /\ i = 0
  /\ stack = <<>>
  /\ ops = 0
  /\ log = <<>>
  /\ emitted = <<>>
  /\ batch = [mode |-> "none", processed |-> <<>>]
  /\ cycleTokens = {}
  /\ cancelled = {}
  /\ rootBucket = <<>>
  /\ heldBy = Null
  /\ passes = 0
  /\ firstRequest = NoRequest
  /\ lastStep = [op |-> "init", inst |-> Null, ret |-> FALSE, fault |-> FALSE,
                 owner |-> Null, arg |-> 0]

(***************************************************************************)
(* dispatchEventForResponderEventSystem and the traversal.                 *)
(***************************************************************************)
\* the listener of a phase is called: currentInstance is set first
Invoke(kind, inst) ==
  /\ currentInstance' = inst
  /\ stack' = Append(stack, CallbackFrame(kind, inst))
  /\ log' = Append(log, LogEntry(kind, inst, 0))

\* the instance the capture loop visits when its index is k: it runs from the
\* far end of the target list (the root-most instance) down to the target
ForwardInstanceAt(list, k) == list[Len(list) + 1 - k]
CaptureInstanceAt(list, k) == list[k]
\* the local propagation test of the two target phases
CaptureSuppressed(propagated, responder) ==
  StopLocalPropagation(responder) /\ responder \in propagated
BubbleSuppressed(propagated, responder) ==
  StopLocalPropagation(responder) /\ responder \in propagated
Propagate(propagated, responder) ==
  IF StopLocalPropagation(responder) THEN propagated \cup {responder} ELSE propagated
\* propagatedEventResponders.clear() between the phases
KeptBetweenPhases(propagated) == propagated
ClearedBetweenPhases(propagated) == {}

\* the root phase begins: the root list is collected now
EnterRootPhase(type) ==
  /\ pc' = "root"
  /\ rootEventResponderInstances' =
       getRootEventResponderInstances(currentOwner,
         rootEventTypesToEventComponentInstances, type)
  /\ rootBucket' = rootEventTypesToEventComponentInstances[type]
  /\ i' = 1

DispatchEventForResponderEventSystem(type, targetFiber) ==
  /\ pc = "idle"
  /\ stack = <<>>
  /\ cycle' = "dispatch"
  /\ currentEventQueue' = createEventQueue
  /\ topLevelType' = type
  /\ targetEventResponderInstances' =
       getTargetEventResponderInstances(currentOwner, type, targetFiber)
  /\ propagatedEventResponders' = {}
  /\ IF Len(targetEventResponderInstances') > 0
       THEN /\ pc' = "capture"
            /\ i' = Len(targetEventResponderInstances')
            /\ UNCHANGED <<rootEventResponderInstances, rootBucket>>
       ELSE EnterRootPhase(type)
  /\ ops' = 0
  /\ log' = <<>>
  /\ emitted' = <<>>
  /\ batch' = [mode |-> "none", processed |-> <<>>]
  /\ cycleTokens' = {}
  /\ heldBy' = currentOwner
  /\ passes' = 0
  /\ lastStep' = Label("dispatch", Null, FALSE, targetFiber)
  /\ UNCHANGED <<currentOwner, currentInstance, eventListeners,
                 rootEventTypesToEventComponentInstances, instanceRootEventTypes,
                 ownershipChangeListeners, currentTimers, activeTimeouts, timeouts, timerCount,
                 timersArr, stack, firstRequest, cancelled, lifecycle, unmounting>>

\* one iteration of the capture loop: for (i = length; i-- > 0; )
CaptureStep ==
  /\ pc = "capture"
  /\ stack = <<>>
  /\ IF i = 0
       THEN /\ propagatedEventResponders' = ClearedBetweenPhases(propagatedEventResponders)
            /\ pc' = "bubble"
            /\ i' = 1
            /\ lastStep' = Label("captureEnd", Null, FALSE, 0)
            /\ UNCHANGED <<currentInstance, stack, log>>
       ELSE LET inst == CaptureInstanceAt(targetEventResponderInstances, i)
                responder == ResponderOf(inst)
            IN  /\ pc' = pc
                /\ i' = i - 1
                /\ IF CaptureSuppressed(propagatedEventResponders, responder)
                     THEN /\ lastStep' = Label("captureSkip", inst, FALSE, 0)
                          /\ UNCHANGED <<propagatedEventResponders, currentInstance, stack, log>>
                     ELSE /\ propagatedEventResponders' =
                               Propagate(propagatedEventResponders, responder)
                          /\ IF HasHandler(inst, "onEventCapture")
                               THEN /\ Invoke("capture", inst)
                                    /\ lastStep' = Label("capture", inst, TRUE, 0)
                               ELSE /\ lastStep' = Label("capture", inst, FALSE, 0)
                                    /\ UNCHANGED <<currentInstance, stack, log>>
  /\ UNCHANGED <<currentOwner, currentEventQueue, eventListeners,
                 rootEventTypesToEventComponentInstances, instanceRootEventTypes,
                 ownershipChangeListeners, currentTimers, activeTimeouts, timeouts, timerCount,
                 topLevelType, lifecycle, unmounting, targetEventResponderInstances,
                 rootEventResponderInstances, rootBucket, timersArr, ops,
                 emitted, batch, cycleTokens, cancelled, heldBy,
                 passes, firstRequest, cycle>>

\* one iteration of the bubble loop: for (i = 0; i < length; i++)
BubbleStep ==
  /\ pc = "bubble"
  /\ stack = <<>>
  /\ IF i > Len(targetEventResponderInstances)
       THEN /\ EnterRootPhase(topLevelType)
            /\ lastStep' = Label("bubbleEnd", Null, FALSE, 0)
            /\ UNCHANGED <<propagatedEventResponders, currentInstance, stack, log>>
       ELSE LET inst == targetEventResponderInstances[i]
                responder == ResponderOf(inst)
            IN  /\ pc' = pc
                /\ i' = i + 1
                /\ UNCHANGED <<rootEventResponderInstances, rootBucket>>
                /\ IF BubbleSuppressed(propagatedEventResponders, responder)
                     THEN /\ lastStep' = Label("bubbleSkip", inst, FALSE, 0)
                          /\ UNCHANGED <<propagatedEventResponders, currentInstance, stack, log>>
                     ELSE /\ propagatedEventResponders' =
                               Propagate(propagatedEventResponders, responder)
                          /\ IF HasHandler(inst, "onEvent")
                               THEN /\ Invoke("bubble", inst)
                                    /\ lastStep' = Label("bubble", inst, TRUE, 0)
                               ELSE /\ lastStep' = Label("bubble", inst, FALSE, 0)
                                    /\ UNCHANGED <<currentInstance, stack, log>>
  /\ UNCHANGED <<currentOwner, currentEventQueue, eventListeners,
                 rootEventTypesToEventComponentInstances, instanceRootEventTypes,
                 ownershipChangeListeners, currentTimers, activeTimeouts, timeouts, timerCount,
                 topLevelType, lifecycle, unmounting, targetEventResponderInstances, timersArr, ops,
                 emitted, batch, cycleTokens, cancelled, heldBy,
                 passes, firstRequest, cycle>>

\* one iteration of the root loop
RootStep ==
  /\ pc = "root"
  /\ stack = <<>>
  /\ IF i > Len(rootEventResponderInstances)
       THEN /\ pc' = "flush"
            /\ i' = i
            /\ lastStep' = Label("rootEnd", Null, FALSE, 0)
            /\ UNCHANGED <<currentInstance, stack, log>>
       ELSE LET inst == rootEventResponderInstances[i]
            IN  /\ pc' = pc
                /\ i' = i + 1
                /\ IF HasHandler(inst, "onRootEvent")
                     THEN /\ Invoke("root", inst)
                          /\ lastStep' = Label("root", inst, TRUE, 0)
                     ELSE /\ lastStep' = Label("root", inst, FALSE, 0)
                          /\ UNCHANGED <<currentInstance, stack, log>>
  /\ UNCHANGED <<currentOwner, currentEventQueue, eventListeners,
                 rootEventTypesToEventComponentInstances, instanceRootEventTypes,
                 ownershipChangeListeners, currentTimers, activeTimeouts, timeouts, timerCount,
                 topLevelType, lifecycle, unmounting, targetEventResponderInstances,
                 rootEventResponderInstances, rootBucket, propagatedEventResponders,
                 timersArr, ops, emitted, batch, cycleTokens, cancelled, heldBy,
                 passes, firstRequest, cycle>>

(***************************************************************************)
(* processEventQueue and the teardown of the cycle.                        *)
(***************************************************************************)
\* processEvents: each event, in queue order, with the listener that
\* eventListeners holds for the event object
ReversedEvents(events, listeners) ==
  [k \in 1..Len(events) |->
     [event |-> events[Len(events) + 1 - k],
      listener |-> listeners[events[Len(events) + 1 - k]]]]
processEvents(events, listeners) ==
  [k \in 1..Len(events) |-> [event |-> events[k], listener |-> listeners[events[k]]]]

\* the mode of the batching collaborator the queue is run in
BatchMode(queue) == IF queue.discrete THEN "interactive" ELSE "default"

ProcessEventQueue ==
  /\ pc = "flush"
  /\ stack = <<>>
  /\ batch' = IF Len(currentEventQueue.events) = 0
                THEN batch
                ELSE [mode |-> BatchMode(currentEventQueue),
                      processed |-> processEvents(currentEventQueue.events, eventListeners)]
  /\ pc' = "finally"
  /\ lastStep' = Label("processEventQueue", Null, FALSE, 0)
  /\ UNCHANGED <<engineVars, cycle, topLevelType, lifecycle, unmounting, targetEventResponderInstances,
                 rootEventResponderInstances, rootBucket, propagatedEventResponders,
                 timersArr, i, stack, ops, log, emitted, cycleTokens, cancelled, heldBy,
                 passes, firstRequest>>

\* the finally block of dispatchEventForResponderEventSystem and of processTimers
Teardown ==
  /\ currentTimers' = [isNull |-> TRUE, map |-> [d \in Delays |-> Null]]
  /\ currentInstance' = Null
  /\ currentEventQueue' = NoQueue
  /\ cycle' = "none"
  /\ pc' = "idle"

CycleFinally ==
  /\ pc = "finally"
  /\ Teardown
  /\ lastStep' = Label("finally", Null, FALSE, 0)
  /\ UNCHANGED <<currentOwner, eventListeners,
                 rootEventTypesToEventComponentInstances, instanceRootEventTypes,
                 ownershipChangeListeners, activeTimeouts, timeouts, timerCount,
                 topLevelType, lifecycle, unmounting, targetEventResponderInstances,
                 rootEventResponderInstances, rootBucket, propagatedEventResponders,
                 timersArr, i, stack, ops, log, emitted, batch, cycleTokens, cancelled,
                 heldBy, passes, firstRequest>>

(***************************************************************************)
(* A running callback returns, or throws.                                  *)
(***************************************************************************)
\* processTimers: finally { activeTimeouts.delete(id) } around func()
TimerDone(frame) ==
  IF frame.kind = "timer" THEN [activeTimeouts EXCEPT ![frame.idx] = Null]
  ELSE activeTimeouts

CallbackReturn ==
  /\ InCallback
  /\ stack' = Pop(stack)
  /\ activeTimeouts' = TimerDone(Top)
  /\ lastStep' = Label("return", Top.inst, FALSE, 0)
  /\ UNCHANGED <<currentOwner, currentInstance, currentEventQueue, eventListeners,
                 rootEventTypesToEventComponentInstances, instanceRootEventTypes,
                 ownershipChangeListeners, currentTimers, timeouts, timerCount,
                 cycle, pc, topLevelType, lifecycle, unmounting, targetEventResponderInstances,
                 rootEventResponderInstances, rootBucket, propagatedEventResponders,
                 timersArr, i, ops, log, emitted, batch, cycleTokens, cancelled,
                 heldBy, passes, firstRequest>>

\* A throw leaves the callback.  Out of an onOwnershipChange listener it passes
\* the finally of triggerOwnershipListeners (currentInstance = previousInstance)
\* and reaches the callback that called requestOwnership or releaseOwnership,
\* which catches it or throws on.  Out of a callback the engine called it is
\* caught nowhere: the finally blocks of the cycle run and the flush is skipped.
CallbackThrow ==
  /\ InCallback
  /\ IF Len(stack) > 1
       THEN /\ stack' = SubSeq(stack, 1, Len(stack) - 2)
            /\ currentInstance' = stack[Len(stack) - 1].prev
            /\ UNCHANGED <<currentTimers, currentEventQueue, cycle, activeTimeouts>>
            /\ IF stack[1].kind = "notify"
                 THEN \* the pass was started by unmountEventResponder, which the
                      \* throw leaves before its bookkeeping
                      /\ pc' = "idle"
                      /\ lifecycle' = [lifecycle EXCEPT ![unmounting] = "failed"]
                      /\ unmounting' = Null
                 ELSE UNCHANGED <<pc, lifecycle, unmounting>>
       ELSE /\ stack' = <<>>
            /\ activeTimeouts' = TimerDone(Top)
            /\ IF Top.kind = "async"
                 THEN UNCHANGED <<currentTimers, currentInstance, currentEventQueue,
                                  cycle, pc>>
                 ELSE Teardown
            /\ IF Top.kind = "unmount"
                 THEN /\ lifecycle' = [lifecycle EXCEPT ![unmounting] = "failed"]
                      /\ unmounting' = Null
                 ELSE UNCHANGED <<lifecycle, unmounting>>
  /\ lastStep' = FaultLabel("throw", Top.inst, Len(stack))
  /\ UNCHANGED <<currentOwner, eventListeners,
                 rootEventTypesToEventComponentInstances, instanceRootEventTypes,
                 ownershipChangeListeners, timeouts, timerCount,
                 topLevelType, targetEventResponderInstances,
                 rootEventResponderInstances, rootBucket, propagatedEventResponders,
                 timersArr, i, ops, log, emitted, batch, cycleTokens, cancelled,
                 heldBy, passes, firstRequest>>

(***************************************************************************)
(* The Responder Context: ownership.                                       *)
(***************************************************************************)
\* validateResponderContext: currentEventQueue && currentInstance
ValidResponderContext == currentEventQueue.open /\ currentInstance # Null

\* a callback is running and may perform one more context operation
CanCall == InCallback /\ ops < MaxOps

\* requestOwnership takes the slot when currentOwner === null
AlwaysGrants(owner) == TRUE
requestOwnershipGrants(owner) == owner = Null
\* releaseOwnership clears the slot when currentOwner === currentInstance
AlwaysReleases(owner, inst) == owner # Null
releaseOwnershipApplies(owner, inst) == owner = inst

\* triggerOwnershipListeners() is entered: listeningInstances is copied,
\* previousInstance is saved
TriggerOwnershipListeners(ret) ==
  /\ stack' = Append(stack, NotifyFrame(ownershipChangeListeners, currentInstance, ret))
  /\ passes' = passes + 1

HasOwnership ==
  /\ CanCall
  /\ ops' = ops + 1
  /\ lastStep' = IF ValidResponderContext
                   THEN Label("hasOwnership", currentInstance,
                              currentOwner = currentInstance, 0)
                   ELSE FaultLabel("hasOwnership", currentInstance, 0)
  /\ UNCHANGED <<engineVars, cycle, pc, topLevelType, lifecycle, unmounting, targetEventResponderInstances,
                 rootEventResponderInstances, rootBucket, propagatedEventResponders,
                 timersArr, i, stack, log, emitted, batch, cycleTokens, cancelled, heldBy,
                 passes, firstRequest>>

RequestOwnership ==
  /\ CanCall
  /\ ops' = ops + 1
  /\ IF ~ValidResponderContext
       THEN /\ lastStep' = FaultLabel("requestOwnership", currentInstance, passes)
            /\ UNCHANGED <<currentOwner, stack, passes, heldBy, firstRequest>>
       ELSE IF requestOwnershipGrants(currentOwner)
         THEN /\ currentOwner' = currentInstance
              /\ TriggerOwnershipListeners(TRUE)
              /\ heldBy' = Null
              /\ firstRequest' = IF firstRequest.inst = Null
                                   THEN [inst |-> currentInstance, ret |-> TRUE]
                                   ELSE firstRequest
              /\ lastStep' = Label("requestOwnership", currentInstance, TRUE, passes)
         ELSE /\ firstRequest' = IF firstRequest.inst = Null
                                   THEN [inst |-> currentInstance, ret |-> FALSE]
                                   ELSE firstRequest
              /\ lastStep' = Label("requestOwnership", currentInstance, FALSE, passes)
              /\ UNCHANGED <<currentOwner, stack, passes, heldBy>>
  /\ UNCHANGED <<currentInstance, currentEventQueue, eventListeners,
                 rootEventTypesToEventComponentInstances, instanceRootEventTypes,
                 ownershipChangeListeners, currentTimers, activeTimeouts, timeouts, timerCount,
                 cycle, pc, topLevelType, lifecycle, unmounting, targetEventResponderInstances,
                 rootEventResponderInstances, rootBucket, propagatedEventResponders,
                 timersArr, i, log, emitted, batch, cycleTokens, cancelled>>

ReleaseOwnership ==
  /\ CanCall
  /\ ops' = ops + 1
  /\ IF ~ValidResponderContext
       THEN /\ lastStep' = FaultLabel("releaseOwnership", currentInstance, passes)
            /\ UNCHANGED <<currentOwner, stack, passes, heldBy, firstRequest>>
       ELSE IF releaseOwnershipApplies(currentOwner, currentInstance)
         THEN /\ currentOwner' = Null
              /\ TriggerOwnershipListeners(FALSE)
              /\ heldBy' = Null
              /\ firstRequest' = NoRequest
              /\ lastStep' = Label("releaseOwnership", currentInstance, FALSE, passes)
         ELSE /\ lastStep' = Label("releaseOwnership", currentInstance, FALSE, passes)
              /\ UNCHANGED <<currentOwner, stack, passes, heldBy, firstRequest>>
  /\ UNCHANGED <<currentInstance, currentEventQueue, eventListeners,
                 rootEventTypesToEventComponentInstances, instanceRootEventTypes,
                 ownershipChangeListeners, currentTimers, activeTimeouts, timeouts, timerCount,
                 cycle, pc, topLevelType, lifecycle, unmounting, targetEventResponderInstances,
                 rootEventResponderInstances, rootBucket, propagatedEventResponders,
                 timersArr, i, log, emitted, batch, cycleTokens, cancelled>>

\* one iteration of the loop of triggerOwnershipListeners, or its end: the
\* finally restores currentInstance and the context operation returns
TriggerOwnershipListenersStep ==
  /\ stack # <<>>
  /\ Top.kind = "notify"
  /\ IF Top.idx < Len(Top.list)
       THEN LET inst == Top.list[Top.idx + 1]
            IN  /\ currentInstance' = inst
                /\ stack' = Append([stack EXCEPT ![Len(stack)].idx = @ + 1],
                                   CallbackFrame("ownership", inst))
                /\ lastStep' = Label("onOwnershipChange", inst, FALSE, 0)
       ELSE /\ currentInstance' = Top.prev
            /\ stack' = Pop(stack)
            /\ lastStep' = Label("ownershipReturn", Top.prev, Top.ret, 0)
  /\ UNCHANGED <<currentOwner, currentEventQueue, eventListeners,
                 rootEventTypesToEventComponentInstances, instanceRootEventTypes,
                 ownershipChangeListeners, currentTimers, activeTimeouts, timeouts, timerCount,
                 cycle, pc, topLevelType, lifecycle, unmounting, targetEventResponderInstances,
                 rootEventResponderInstances, rootBucket, propagatedEventResponders,
                 timersArr, i, ops, log, emitted, batch, cycleTokens, cancelled,
                 heldBy, passes, firstRequest>>

(***************************************************************************)
(* The Responder Context: root event types.                                *)
(***************************************************************************)
\* the loop of context.addRootEventTypes on [reg, irt, fault]: the invariant
\* throws at the first type the instance's set already has
RECURSIVE addRootEventTypes(_, _, _)
addRootEventTypes(st, inst, types) ==
  IF types = <<>> THEN st
  ELSE IF Head(types) \in st.irt[inst]
    THEN [st EXCEPT !.fault = TRUE]
    ELSE addRootEventTypes(
           [reg |-> [st.reg EXCEPT ![Head(types)] = SetAdd(@, inst)],
            irt |-> [st.irt EXCEPT ![inst] = @ \cup {Head(types)}],
            fault |-> FALSE],
           inst, Tail(types))

\* the loop of context.removeRootEventTypes on [reg, irt]
RECURSIVE removeRootEventTypes(_, _, _)
removeRootEventTypes(st, inst, types) ==
  IF types = <<>> THEN st
  ELSE removeRootEventTypes(
         [reg |-> [st.reg EXCEPT ![Head(types)] = SetDelete(@, inst)],
          irt |-> [st.irt EXCEPT ![inst] = @ \ {Head(types)}]],
         inst, Tail(types))

AddRootEventTypes(types) ==
  /\ InCallback
  /\ ops < MaxRootOps
  /\ ops' = ops + 1
  /\ IF ~ValidResponderContext
       THEN /\ lastStep' = FaultLabel("addRootEventTypes", currentInstance, 0)
            /\ UNCHANGED <<rootEventTypesToEventComponentInstances, instanceRootEventTypes>>
       ELSE LET r == addRootEventTypes(
                       [reg |-> rootEventTypesToEventComponentInstances,
                        irt |-> instanceRootEventTypes, fault |-> FALSE],
                       currentInstance, types)
            IN  /\ rootEventTypesToEventComponentInstances' = r.reg
                /\ instanceRootEventTypes' = r.irt
                /\ lastStep' = IF r.fault
                                 THEN FaultLabel("addRootEventTypes", currentInstance, Len(types))
                                 ELSE Label("addRootEventTypes", currentInstance, FALSE, Len(types))
  /\ UNCHANGED <<currentOwner, currentInstance, currentEventQueue, eventListeners,
                 ownershipChangeListeners, currentTimers, activeTimeouts, timeouts, timerCount,
                 cycle, pc, topLevelType, lifecycle, unmounting, targetEventResponderInstances,
                 rootEventResponderInstances, rootBucket, propagatedEventResponders,
                 timersArr, i, stack, log, emitted, batch, cycleTokens, cancelled,
                 heldBy, passes, firstRequest>>

RemoveRootEventTypes(types) ==
  /\ InCallback
  /\ ops < MaxRootOps
  /\ ops' = ops + 1
  /\ IF ~ValidResponderContext
       THEN /\ lastStep' = FaultLabel("removeRootEventTypes", currentInstance, 0)
            /\ UNCHANGED <<rootEventTypesToEventComponentInstances, instanceRootEventTypes>>
       ELSE LET r == removeRootEventTypes(
                       [reg |-> rootEventTypesToEventComponentInstances,
                        irt |-> instanceRootEventTypes],
                       currentInstance, types)
            IN  /\ rootEventTypesToEventComponentInstances' = r.reg
                /\ instanceRootEventTypes' = r.irt
                /\ lastStep' = Label("removeRootEventTypes", currentInstance, FALSE, Len(types))
  /\ UNCHANGED <<currentOwner, currentInstance, currentEventQueue, eventListeners,
                 ownershipChangeListeners, currentTimers, activeTimeouts, timeouts, timerCount,
                 cycle, pc, topLevelType, lifecycle, unmounting, targetEventResponderInstances,
                 rootEventResponderInstances, rootBucket, propagatedEventResponders,
                 timersArr, i, stack, log, emitted, batch, cycleTokens, cancelled,
                 heldBy, passes, firstRequest>>

(***************************************************************************)
(* The Responder Context: emitting an event.                               *)
(***************************************************************************)
\* the discrete flag of the queue after an emit
LastEmitDecides(queueDiscrete, discrete) == discrete
DiscreteAfterEmit(queueDiscrete, discrete) == queueDiscrete \/ discrete

\* context.dispatchEvent(eventObject, listener, {discrete}); hasFields: the
\* event object carries target and type
DispatchEvent(event, listener, discrete, hasFields) ==
  /\ CanCall
  /\ ops' = ops + 1
  /\ IF ~ValidResponderContext \/ ~hasFields
       THEN /\ lastStep' = FaultLabel("dispatchEvent", currentInstance, 0)
            /\ UNCHANGED <<currentEventQueue, eventListeners, emitted>>
       ELSE /\ currentEventQueue' =
                 [currentEventQueue EXCEPT
                    !.discrete = DiscreteAfterEmit(@, discrete),
                    !.events = Append(@, event)]
            /\ eventListeners' = [eventListeners EXCEPT ![event] = listener]
            /\ emitted' = Append(emitted, [event |-> event, listener |-> listener,
                                           discrete |-> discrete])
            /\ lastStep' = Label("dispatchEvent", currentInstance, discrete, 0)
  /\ UNCHANGED <<currentOwner, currentInstance,
                 rootEventTypesToEventComponentInstances, instanceRootEventTypes,
                 ownershipChangeListeners, currentTimers, activeTimeouts, timeouts, timerCount,
                 cycle, pc, topLevelType, lifecycle, unmounting, targetEventResponderInstances,
                 rootEventResponderInstances, rootBucket, propagatedEventResponders,
                 timersArr, i, stack, log, batch, cycleTokens, cancelled,
                 heldBy, passes, firstRequest>>

(***************************************************************************)
(* The Responder Context: timers, and processTimers.                       *)
(***************************************************************************)
\* the ResponderTimeout that setTimeout attaches the new timer to: the one
\* currentTimers holds for the delay, or a new one (Null)
AlwaysNewTimeout(timers, delay) == Null
TimeoutForDelay(timers, delay) == IF timers.isNull THEN Null ELSE timers.map[delay]

\* timers.delete(timerId), on the insertion-ordered map of a ResponderTimeout
DeleteTimer(timers, timerId) == SelectSeq(timers, LAMBDA t : t.id # timerId)

\* the host's clearTimeout(id): a pending host timer will not fire
ClearHostTimer(host) == IF host = "pending" THEN "cleared" ELSE host

SetTimeout(delay) ==
  /\ CanCall
  /\ timerCount < MaxTimers
  /\ ops' = ops + 1
  /\ IF ~ValidResponderContext
       THEN /\ lastStep' = FaultLabel("setTimeout", currentInstance, 0)
            /\ UNCHANGED <<currentTimers, activeTimeouts, timeouts, timerCount, cycleTokens>>
       ELSE LET timerId == timerCount + 1
                found == TimeoutForDelay(currentTimers, delay)
                timeout == IF found = Null THEN Len(timeouts) + 1 ELSE found
                timer == [id |-> timerId, instance |-> currentInstance]
                map == IF currentTimers.isNull THEN [d \in Delays |-> Null]
                       ELSE currentTimers.map
            IN  /\ timerCount' = timerId
                /\ timeouts' =
                     IF found = Null
                       THEN Append(timeouts, [delay |-> delay, host |-> "pending",
                                              timers |-> <<timer>>])
                       ELSE [timeouts EXCEPT ![found].timers = Append(@, timer)]
                /\ currentTimers' = [isNull |-> FALSE,
                                     map |-> [map EXCEPT ![delay] = timeout]]
                /\ activeTimeouts' = [activeTimeouts EXCEPT ![timerId] = timeout]
                /\ cycleTokens' = cycleTokens \cup {timerId}
                /\ lastStep' = Label("setTimeout", currentInstance, found = Null, timerId)
  /\ UNCHANGED <<currentOwner, currentInstance, currentEventQueue, eventListeners,
                 rootEventTypesToEventComponentInstances, instanceRootEventTypes,
                 ownershipChangeListeners,
                 cycle, pc, topLevelType, lifecycle, unmounting, targetEventResponderInstances,
                 rootEventResponderInstances, rootBucket, propagatedEventResponders,
                 timersArr, i, stack, log, emitted, batch, cancelled,
                 heldBy, passes, firstRequest>>

ClearTimeout(timerId) ==
  /\ CanCall
  /\ timerId <= timerCount
  /\ ops' = ops + 1
  /\ IF ~ValidResponderContext
       THEN /\ lastStep' = FaultLabel("clearTimeout", currentInstance, timerId)
            /\ UNCHANGED <<timeouts, cancelled>>
       ELSE LET timeout == activeTimeouts[timerId]
            IN  /\ IF timeout # Null
                     THEN LET timers == DeleteTimer(timeouts[timeout].timers, timerId)
                          IN  timeouts' =
                                [timeouts EXCEPT
                                   ![timeout].timers = timers,
                                   ![timeout].host =
                                      IF Len(timers) = 0 THEN ClearHostTimer(@) ELSE @]
                     ELSE UNCHANGED timeouts
                /\ cancelled' = cancelled \cup {timerId}
                /\ lastStep' = Label("clearTimeout", currentInstance,
                                      timeout # Null /\ timeouts[timeout].host = "pending",
                                      timerId)
  /\ UNCHANGED <<currentOwner, currentInstance, currentEventQueue, eventListeners,
                 rootEventTypesToEventComponentInstances, instanceRootEventTypes,
                 ownershipChangeListeners, currentTimers, activeTimeouts, timerCount,
                 cycle, pc, topLevelType, lifecycle, unmounting, targetEventResponderInstances,
                 rootEventResponderInstances, rootBucket, propagatedEventResponders,
                 timersArr, i, stack, log, emitted, batch, cycleTokens,
                 heldBy, passes, firstRequest>>

\* the host timer of a ResponderTimeout fires: processTimers(timers) begins
ProcessTimers(timeout) ==
  /\ pc = "idle"
  /\ stack = <<>>
  /\ timeout \in 1..Len(timeouts)
  /\ timeouts[timeout].host = "pending"
  /\ timeouts' = [timeouts EXCEPT ![timeout].host = "fired"]
  /\ timersArr' = timeouts[timeout].timers
  /\ currentEventQueue' = createEventQueue
  /\ cycle' = "timers"
  /\ pc' = "timers"
  /\ i' = 1
  /\ ops' = 0
  /\ log' = <<>>
  /\ emitted' = <<>>
  /\ batch' = [mode |-> "none", processed |-> <<>>]
  /\ cycleTokens' = {}
  /\ heldBy' = Null
  /\ passes' = 0
  /\ lastStep' = Label("processTimers", Null, FALSE, timeout)
  /\ UNCHANGED <<currentOwner, currentInstance, eventListeners,
                 rootEventTypesToEventComponentInstances, instanceRootEventTypes,
                 ownershipChangeListeners, currentTimers, activeTimeouts, timerCount,
                 topLevelType, lifecycle, unmounting, targetEventResponderInstances,
                 rootEventResponderInstances, rootBucket, propagatedEventResponders,
                 stack, cancelled, firstRequest>>

\* one iteration of the loop of processTimers over timersArr
ProcessTimersStep ==
  /\ pc = "timers"
  /\ stack = <<>>
  /\ IF i > Len(timersArr)
       THEN /\ pc' = "flush"
            /\ i' = i
            /\ lastStep' = Label("timersEnd", Null, FALSE, 0)
            /\ UNCHANGED <<currentInstance, stack, log>>
       ELSE LET timer == timersArr[i]
            IN  /\ pc' = pc
                /\ i' = i + 1
                /\ currentInstance' = timer.instance
                /\ stack' = Append(stack, [CallbackFrame("timer", timer.instance)
                                             EXCEPT !.idx = timer.id])
                /\ log' = Append(log, LogEntry("timer", timer.instance, timer.id))
                /\ lastStep' = Label("timer", timer.instance, TRUE, timer.id)
  /\ UNCHANGED <<currentOwner, currentEventQueue, eventListeners,
                 rootEventTypesToEventComponentInstances, instanceRootEventTypes,
                 ownershipChangeListeners, currentTimers, activeTimeouts, timeouts,
                 timerCount, cycle, topLevelType, lifecycle, unmounting, targetEventResponderInstances,
                 rootEventResponderInstances, rootBucket, propagatedEventResponders,
                 timersArr, ops, emitted, batch, cycleTokens, cancelled, heldBy,
                 passes, firstRequest>>

(***************************************************************************)
(* The Responder Context: tree queries, and the context used by code that  *)
(* runs outside of every cycle.                                            *)
(***************************************************************************)
\* the fiber is the fiber of the parent or has it on its return path
RECURSIVE OnReturnPath(_, _)
OnReturnPath(node, parentFiber) ==
  IF node = Null THEN FALSE
  ELSE IF node = parentFiber THEN TRUE
  ELSE OnReturnPath(FiberReturn(node), parentFiber)

\* a fiber whose stateNode is the instance is the fiber or on its return path;
\* only the stateNode of an event component fiber is an instance
RECURSIVE WithinEventComponent(_, _)
WithinEventComponent(fiber, inst) ==
  IF fiber = Null THEN FALSE
  ELSE IF FiberTag(fiber) = "EventComponent" /\ FiberStateNode(fiber) = inst THEN TRUE
  ELSE WithinEventComponent(FiberReturn(fiber), inst)

\* the operations of the context that begin with validateResponderContext()
ValidatedOperations ==
  {"dispatchEvent", "isTargetWithinEventComponent", "addRootEventTypes",
   "removeRootEventTypes", "hasOwnership", "requestOwnership", "releaseOwnership",
   "setTimeout", "clearTimeout"}
ContextOperations == ValidatedOperations \cup {"isTargetWithinElement"}

\* context.isTargetWithinEventComponent(target)
IsTargetWithinEventComponent(target) ==
  /\ CanCall
  /\ ops' = ops + 1
  /\ lastStep' =
       IF ValidResponderContext
         THEN Label("isTargetWithinEventComponent", currentInstance,
                    WithinEventComponent(target, currentInstance), target)
         ELSE FaultLabel("isTargetWithinEventComponent", currentInstance, target)
  /\ UNCHANGED <<engineVars, cycle, pc, topLevelType, lifecycle, unmounting,
                 targetEventResponderInstances,
                 rootEventResponderInstances, rootBucket, propagatedEventResponders,
                 timersArr, i, stack, log, emitted, batch, cycleTokens, cancelled, heldBy,
                 passes, firstRequest>>

\* context.isTargetWithinElement(childTarget, parentTarget): it does not call
\* validateResponderContext()
IsTargetWithinElement(childFiber, parentFiber) ==
  /\ CanCall
  /\ ops' = ops + 1
  /\ lastStep' = Label("isTargetWithinElement", currentInstance,
                       OnReturnPath(childFiber, parentFiber), childFiber)
  /\ UNCHANGED <<engineVars, cycle, pc, topLevelType, lifecycle, unmounting,
                 targetEventResponderInstances,
                 rootEventResponderInstances, rootBucket, propagatedEventResponders,
                 timersArr, i, stack, log, emitted, batch, cycleTokens, cancelled, heldBy,
                 passes, firstRequest>>

\* code that kept a reference to the context (a callback of a promise, an
\* emitted event's listener called later) runs while no cycle is open
AsyncCallback ==
  /\ pc = "idle"
  /\ stack = <<>>
  /\ stack' = <<CallbackFrame("async", Null)>>
  /\ ops' = 0
  /\ lastStep' = Label("async", Null, FALSE, 0)
  /\ UNCHANGED <<engineVars, cycle, pc, topLevelType, lifecycle, unmounting,
                 targetEventResponderInstances,
                 rootEventResponderInstances, rootBucket, propagatedEventResponders,
                 timersArr, i, log, emitted, batch, cycleTokens, cancelled, heldBy,
                 passes, firstRequest>>

(***************************************************************************)
(* unmountEventResponder.                                                  *)
(***************************************************************************)
\* the host fibers an event can still target: those with no unmounted event
\* component above them
LiveTargetFibers ==
  {Null} \cup {n \in Fibers :
                 /\ FiberTag(n) = "HostComponent"
                 /\ \A m \in Fibers :
                      (m > n /\ FiberTag(m) = "EventComponent") =>
                        lifecycle[FiberStateNode(m)] = "mounted"}

\* unmountEventResponder gives the slot up when currentOwner === eventComponentInstance
UnmountAlwaysReleases(owner, inst) == owner # Null
unmountReleases(owner, inst) == owner = inst

\* the bucket of every type of the instance's rootEventTypes set loses the instance
unmountRootEventTypes(registry, types, inst) ==
  [t \in EventTypes |-> IF t \in types THEN SetDelete(registry[t], inst)
                        ELSE registry[t]]

\* unmountEventResponder(eventComponentInstance) is entered: a declared
\* onUnmount runs in a cycle of its own
UnmountEventResponder(inst) ==
  /\ pc = "idle"
  /\ stack = <<>>
  /\ lifecycle[inst] = "mounted"
  /\ unmounting' = inst
  /\ IF HasHandler(inst, "onUnmount")
       THEN /\ currentEventQueue' = createEventQueue
            /\ currentInstance' = inst
            /\ stack' = Append(stack, CallbackFrame("unmount", inst))
            /\ cycle' = "unmount"
            /\ pc' = "onUnmount"
            /\ log' = <<LogEntry("unmount", inst, 0)>>
       ELSE /\ pc' = "unmountOwner"
            /\ log' = <<>>
            /\ UNCHANGED <<currentEventQueue, currentInstance, stack, cycle>>
  /\ ops' = 0
  /\ emitted' = <<>>
  /\ batch' = [mode |-> "none", processed |-> <<>>]
  /\ cycleTokens' = {}
  /\ heldBy' = currentOwner
  /\ passes' = 0
  /\ lastStep' = Label("unmount", inst, HasHandler(inst, "onUnmount"), 0)
  /\ UNCHANGED <<currentOwner, eventListeners,
                 rootEventTypesToEventComponentInstances, instanceRootEventTypes,
                 ownershipChangeListeners, currentTimers, activeTimeouts, timeouts,
                 timerCount, topLevelType, lifecycle, targetEventResponderInstances,
                 rootEventResponderInstances, rootBucket, propagatedEventResponders,
                 timersArr, i, cancelled, firstRequest>>

\* onUnmount returned: the finally block of its cycle; the queue is not flushed
UnmountFinally ==
  /\ pc = "onUnmount"
  /\ stack = <<>>
  /\ currentEventQueue' = NoQueue
  /\ currentInstance' = Null
  /\ currentTimers' = [isNull |-> TRUE, map |-> [d \in Delays |-> Null]]
  /\ cycle' = "none"
  /\ pc' = "unmountOwner"
  /\ passes' = 0
  /\ lastStep' = Label("unmountFinally", unmounting, FALSE, 0)
  /\ UNCHANGED <<currentOwner, eventListeners,
                 rootEventTypesToEventComponentInstances, instanceRootEventTypes,
                 ownershipChangeListeners, activeTimeouts, timeouts, timerCount,
                 topLevelType, lifecycle, unmounting, targetEventResponderInstances,
                 rootEventResponderInstances, rootBucket, propagatedEventResponders,
                 timersArr, i, stack, ops, log, emitted, batch, cycleTokens, cancelled,
                 heldBy, firstRequest>>

\* if (currentOwner === eventComponentInstance) { currentOwner = null;
\* triggerOwnershipListeners(); }
UnmountOwnership ==
  /\ pc = "unmountOwner"
  /\ stack = <<>>
  /\ pc' = "unmountRegistries"
  /\ heldBy' = currentOwner
  /\ IF unmountReleases(currentOwner, unmounting)
       THEN /\ currentOwner' = Null
            /\ TriggerOwnershipListeners(FALSE)
            /\ firstRequest' = NoRequest
       ELSE UNCHANGED <<currentOwner, stack, passes, firstRequest>>
  /\ lastStep' = Label("unmountOwnership", unmounting, currentOwner = unmounting, passes)
  /\ UNCHANGED <<currentInstance, currentEventQueue, eventListeners,
                 rootEventTypesToEventComponentInstances, instanceRootEventTypes,
                 ownershipChangeListeners, currentTimers, activeTimeouts, timeouts,
                 timerCount, cycle, topLevelType, lifecycle, unmounting,
                 targetEventResponderInstances,
                 rootEventResponderInstances, rootBucket, propagatedEventResponders,
                 timersArr, i, ops, log, emitted, batch, cycleTokens, cancelled>>

\* the bookkeeping that ends unmountEventResponder: the instance leaves the
\* ownership listeners and the buckets of its root event types
UnmountRegistries ==
  /\ pc = "unmountRegistries"
  /\ stack = <<>>
  /\ ownershipChangeListeners' =
       IF HasHandler(unmounting, "onOwnershipChange")
         THEN SetDelete(ownershipChangeListeners, unmounting)
         ELSE ownershipChangeListeners
  /\ rootEventTypesToEventComponentInstances' =
       unmountRootEventTypes(rootEventTypesToEventComponentInstances,
                             instanceRootEventTypes[unmounting], unmounting)
  /\ lifecycle' = [lifecycle EXCEPT ![unmounting] = "unmounted"]
  /\ unmounting' = Null
  /\ pc' = "idle"
  /\ lastStep' = Label("unmountEnd", unmounting, FALSE, passes)
  /\ UNCHANGED <<currentOwner, currentInstance, currentEventQueue, eventListeners,
                 instanceRootEventTypes, currentTimers, activeTimeouts, timeouts,
                 timerCount, cycle, topLevelType, targetEventResponderInstances,
                 rootEventResponderInstances, rootBucket, propagatedEventResponders,
                 timersArr, i, stack, ops, log, emitted, batch, cycleTokens, cancelled,
                 heldBy, passes, firstRequest>>

\* the steps of unmountEventResponder after its entry
UnmountSteps ==
  \/ UnmountFinally
  \/ UnmountOwnership
  \/ UnmountRegistries

(***************************************************************************)
(* Specifications.                                                         *)
(***************************************************************************)
\* the two target phases of a dispatch
TargetPhases ==
  \/ CaptureStep
  \/ BubbleStep

\* the root phase, the flush and the end of a cycle; a callback returns or throws
CycleSteps ==
  \/ RootStep
  \/ ProcessEventQueue
  \/ CycleFinally
  \/ CallbackReturn
  \/ CallbackThrow

\* dispatch and ownership
Next ==
  \/ \E type \in EventTypes, targetFiber \in TargetFibers :
       DispatchEventForResponderEventSystem(type, targetFiber)
  \/ TargetPhases
  \/ CycleSteps
  \/ HasOwnership
  \/ RequestOwnership
  \/ ReleaseOwnership
  \/ TriggerOwnershipListenersStep

Spec == Init /\ [][Next]_vars

\* dispatch and root event types
NextRoot ==
  \/ \E type \in EventTypes, targetFiber \in TargetFibers :
       DispatchEventForResponderEventSystem(type, targetFiber)
  \/ TargetPhases
  \/ CycleSteps
  \/ \E types \in RootEventTypeLists : AddRootEventTypes(types)
  \/ \E types \in RootEventTypeLists : RemoveRootEventTypes(types)

SpecRoot == Init /\ [][NextRoot]_vars

\* dispatch and emitted events; the events target nothing or the host
\* component under the outermost event component
NextQueue ==
  \/ \E type \in EventTypes, targetFiber \in {Null, 5} :
       DispatchEventForResponderEventSystem(type, targetFiber)
  \/ TargetPhases
  \/ CycleSteps
  \/ \E event \in EventObjects, listener \in Listeners, discrete \in BOOLEAN,
        hasFields \in BOOLEAN :
       DispatchEvent(event, listener, discrete, hasFields)

SpecQueue == Init /\ [][NextQueue]_vars

\* timers; the cycles that schedule them are click events outside the tree,
\* which reach the root listeners of instances 1 and 3, and the timer cycles
NextTimers ==
  \/ DispatchEventForResponderEventSystem("click", Null)
  \/ CycleSteps
  \/ \E delay \in Delays : SetTimeout(delay)
  \/ \E timerId \in Tokens : ClearTimeout(timerId)
  \/ \E timeout \in Tokens : ProcessTimers(timeout)
  \/ ProcessTimersStep

SpecTimers == Init /\ [][NextTimers]_vars

\* dispatch of click events, ownership and unmount
NextUnmount ==
  \/ \E targetFiber \in LiveTargetFibers :
       DispatchEventForResponderEventSystem("click", targetFiber)
  \/ TargetPhases
  \/ CycleSteps
  \/ HasOwnership
  \/ RequestOwnership
  \/ ReleaseOwnership
  \/ TriggerOwnershipListenersStep
  \/ \E inst \in Instances : UnmountEventResponder(inst)
  \/ UnmountSteps

SpecUnmount == Init /\ [][NextUnmount]_vars


\* events outside the tree, timers of one delay, the root event type move
\* added by a callback, and unmount
NextUnmountTimers ==
  \/ \E type \in EventTypes : DispatchEventForResponderEventSystem(type, Null)
  \/ CycleSteps
  \/ SetTimeout(10)
  \/ \E timeout \in Tokens : ProcessTimers(timeout)
  \/ ProcessTimersStep
  \/ AddRootEventTypes(<<"move">>)
  \/ \E inst \in Instances : UnmountEventResponder(inst)
  \/ UnmountSteps

SpecUnmountTimers == Init /\ [][NextUnmountTimers]_vars

\* the operations of the context, called by the root listener of move events
\* outside the tree, by the ownership listeners, and by code that runs outside
\* of every cycle
NextContext ==
  \/ DispatchEventForResponderEventSystem("move", Null)
  \/ CycleSteps
  \/ AsyncCallback
  \/ HasOwnership
  \/ RequestOwnership
  \/ ReleaseOwnership
  \/ TriggerOwnershipListenersStep
  \/ AddRootEventTypes(<<"click">>)
  \/ RemoveRootEventTypes(<<"click">>)
  \/ DispatchEvent("e1", "l1", TRUE, TRUE)
  \/ SetTimeout(10)
  \/ \E timerId \in Tokens : ClearTimeout(timerId)
  \/ IsTargetWithinEventComponent(1)
  \/ IsTargetWithinElement(1, 3)

SpecContext == Init /\ [][NextContext]_vars

\* timers, with the scheduling the host gives: a cycle that began runs to its
\* end, a running callback returns or throws, and a host timer that is not
\* cancelled fires
TimersFairness ==
  /\ WF_vars(CycleSteps)
  /\ WF_vars(ProcessTimersStep)
  /\ \A timeout \in Tokens : SF_vars(ProcessTimers(timeout))

SpecTimersLive == Init /\ [][NextTimers]_vars /\ TimersFairness

\* emitted events in the three kinds of cycle: click events outside the tree,
\* timers of one delay, and unmount
NextUnmountQueue ==
  \/ DispatchEventForResponderEventSystem("click", Null)
  \/ CycleSteps
  \/ \E event \in EventObjects : DispatchEvent(event, "l1", FALSE, TRUE)
  \/ SetTimeout(10)
  \/ \E timeout \in Tokens : ProcessTimers(timeout)
  \/ ProcessTimersStep
  \/ \E inst \in Instances : UnmountEventResponder(inst)
  \/ UnmountSteps

SpecUnmountQueue == Init /\ [][NextUnmountQueue]_vars

\* click events outside the tree, timers of one delay, requestOwnership
\* and unmount
NextUnmountOwner ==
  \/ DispatchEventForResponderEventSystem("click", Null)
  \/ CycleSteps
  \/ SetTimeout(10)
  \/ \E timeout \in Tokens : ProcessTimers(timeout)
  \/ ProcessTimersStep
  \/ RequestOwnership
  \/ TriggerOwnershipListenersStep
  \/ \E inst \in Instances : UnmountEventResponder(inst)
  \/ UnmountSteps

SpecUnmountOwner == Init /\ [][NextUnmountOwner]_vars

(***************************************************************************)
(* Properties.  Helpers over the history of the cycle.                     *)
(***************************************************************************)
PhaseKinds == {"capture", "bubble", "root"}
\* the instances the listeners of one phase were invoked on, in order
InvokedIn(phase) ==
  LET entries == SelectSeq(log, LAMBDA e : e.phase = phase)
  IN  [k \in 1..Len(entries) |-> entries[k].inst]
\* seq, a sequence without repetitions, keeps the order that base gives
FollowsOrderOf(seq, base) ==
  /\ Range(seq) \subseteq Range(base)
  /\ \A j, k \in 1..Len(seq) : j < k =>
       \E a, b \in 1..Len(base) : a < b /\ base[a] = seq[j] /\ base[b] = seq[k]
IsPrefix(seq, full) ==
  Len(seq) <= Len(full) /\ \A k \in 1..Len(seq) : seq[k] = full[k]

\* C1: while the slot is held by one instance X from the start of a dispatch
\* on, every onEventCapture, onEvent and onRootEvent listener that the dispatch
\* invokes is a listener of X.
C1_OnlyOwnerReceives ==
  (cycle = "dispatch" /\ heldBy # Null) =>
    \A k \in 1..Len(log) : log[k].inst = heldBy

\* a click dispatch ran to its flush with the slot held by instance 1
\* throughout: capture, bubble and root listener of 1 ran, although instance 3
\* is registered for click at the root
C1_Witness ==
  /\ cycle = "dispatch"
  /\ pc = "flush"
  /\ heldBy = 1
  /\ topLevelType = "click"
  /\ rootBucket = <<1, 3>>
  /\ InvokedIn("capture") = <<1>>
  /\ InvokedIn("bubble") = <<1>>
  /\ InvokedIn("root") = <<1>>

\* C2: whenever a phase listener (onEventCapture, onEvent, onRootEvent) is
\* invoked on an instance, the slot is empty or holds that instance at the
\* moment of the invocation.
C2_SlotEmptyOrOwnAtInvocation ==
  \A k \in 1..Len(log) :
    log[k].phase \in PhaseKinds => log[k].owner \in {Null, log[k].inst}

\* C3: the first requestOwnership call after the slot was last empty returns
\* true and sets the slot to its caller; a call by another instance with no
\* release in between returns false, leaves the slot with the first caller and
\* starts no notification pass.
C3_SecondRequestRefused ==
  /\ firstRequest.inst # Null =>
       (firstRequest.ret /\ currentOwner = firstRequest.inst)
  /\ ( /\ lastStep.op = "requestOwnership"
       /\ ~lastStep.fault
       /\ firstRequest.inst \notin {Null, lastStep.inst} ) =>
       ( /\ ~lastStep.ret
         /\ lastStep.owner = firstRequest.inst
         /\ currentOwner = firstRequest.inst
         /\ passes = lastStep.arg )

\* instance 1 asked first and holds the slot; the step just taken is the
\* request of another instance
C3_Witness ==
  /\ lastStep.op = "requestOwnership"
  /\ ~lastStep.fault
  /\ firstRequest = [inst |-> 1, ret |-> TRUE]
  /\ lastStep.inst = 3

\* C4: releaseOwnership clears the slot exactly when its caller holds it, and
\* then starts one notification pass; a call by an instance that is not the
\* holder changes nothing and starts no pass; it returns false either way.
C4_ReleaseOnlyByHolder ==
  (lastStep.op = "releaseOwnership" /\ ~lastStep.fault) =>
    /\ ~lastStep.ret
    /\ IF lastStep.owner = lastStep.inst
         THEN /\ currentOwner = Null
              /\ passes = lastStep.arg + 1
              /\ Top.kind = "notify"
              /\ Top.idx = 0
              /\ Top.list = ownershipChangeListeners
              /\ ~Top.ret
         ELSE /\ currentOwner = lastStep.owner
              /\ passes = lastStep.arg
              /\ Top.kind # "notify"

\* the holder, instance 3, has just released the slot
C4_Witness ==
  /\ lastStep.op = "releaseOwnership"
  /\ lastStep.owner = 3
  /\ lastStep.inst = 3
  /\ currentOwner = Null

\* an instance that is not the holder has just called releaseOwnership
C4_WitnessOther ==
  /\ lastStep.op = "releaseOwnership"
  /\ lastStep.owner = 3
  /\ lastStep.inst = 1

PhaseRank(phase) ==
  CASE phase = "capture" -> 1 [] phase = "bubble" -> 2 [] phase = "root" -> 3
    [] OTHER -> 4

\* C5: in a dispatch every capture listener runs before every bubble
\* listener and every bubble listener before every root listener, and the root
\* listeners run in the insertion order of the registry bucket of the type.
C5_PhaseOrder ==
  cycle = "dispatch" =>
    /\ \A j, k \in 1..Len(log) :
         j < k => PhaseRank(log[j].phase) <= PhaseRank(log[k].phase)
    /\ FollowsOrderOf(InvokedIn("root"), rootBucket)

\* a click dispatch ran its three phases; instance 1 had left the click
\* bucket and entered it again, so the bucket order is 3 before 1
C5_Witness ==
  /\ cycle = "dispatch"
  /\ pc = "flush"
  /\ InvokedIn("capture") = <<3, 2>>
  /\ InvokedIn("bubble") = <<1, 2>>
  /\ rootBucket = <<3, 1>>
  /\ InvokedIn("root") = <<3, 1>>

\* C6 as stated: once both target phases of a dispatch are over, the
\* instances the capture listener ran on are the reverse of the instances the
\* bubble listener ran on.
C6_CaptureIsReverseOfBubble ==
  (cycle = "dispatch" /\ pc \in {"root", "flush", "finally"}) =>
    InvokedIn("capture") = Reverse(InvokedIn("bubble"))

\* C6 as amended: capture walks the target list from the far end to the
\* target and bubble from the target to the far end, so on the instances
\* whose listeners ran in both phases the capture order is the reverse of the
\* bubble order.
C6_ReverseOnCommonInstances ==
  cycle = "dispatch" =>
    LET cap == InvokedIn("capture")
        bub == InvokedIn("bubble")
        both == Range(cap) \cap Range(bub)
    IN  /\ FollowsOrderOf(cap, Reverse(targetEventResponderInstances))
        /\ FollowsOrderOf(bub, targetEventResponderInstances)
        /\ SelectSeq(cap, LAMBDA n : n \in both) =
             Reverse(SelectSeq(bub, LAMBDA n : n \in both))

\* both target phases ran on the list <<2, 3>>: capture on 3 then 2, bubble on
\* 2 then 3
C6_Witness ==
  /\ cycle = "dispatch"
  /\ pc = "root"
  /\ targetEventResponderInstances = <<2, 3>>
  /\ InvokedIn("capture") = <<3, 2>>
  /\ InvokedIn("bubble") = <<2, 3>>

\* position of an instance in a list without repetitions
PositionIn(list, inst) == CHOOSE k \in 1..Len(list) : list[k] = inst
\* the instances of the target list the capture listener is due on: those that
\* declare it and, under stopLocalPropagation, are the farthest of their
\* responder in the list
DueInCapture(list) ==
  SelectSeq(Reverse(list), LAMBDA n :
    /\ HasHandler(n, "onEventCapture")
    /\ StopLocalPropagation(ResponderOf(n)) =>
         \A m \in Range(list) : ResponderOf(m) = ResponderOf(n) =>
           PositionIn(list, m) <= PositionIn(list, n))
\* likewise for bubble: under stopLocalPropagation the nearest of the responder
DueInBubble(list) ==
  SelectSeq(list, LAMBDA n :
    /\ HasHandler(n, "onEvent")
    /\ StopLocalPropagation(ResponderOf(n)) =>
         \A m \in Range(list) : ResponderOf(m) = ResponderOf(n) =>
           PositionIn(list, n) <= PositionIn(list, m))

\* C7: of the instances of a responder with stopLocalPropagation in the
\* target list, the capture listener runs on the farthest only and the bubble
\* listener on the nearest only; the suppression of one phase does not reach
\* the other, and instances of other responders all run.
C7_LocalPropagation ==
  cycle = "dispatch" =>
    /\ IsPrefix(InvokedIn("capture"), DueInCapture(targetEventResponderInstances))
    /\ IsPrefix(InvokedIn("bubble"), DueInBubble(targetEventResponderInstances))
    /\ pc \in {"bubble", "root", "flush", "finally"} =>
         InvokedIn("capture") = DueInCapture(targetEventResponderInstances)
    /\ pc \in {"root", "flush", "finally"} =>
         InvokedIn("bubble") = DueInBubble(targetEventResponderInstances)

\* instances 1 and 3 share the responder with stopLocalPropagation and 2 lies
\* between them: capture ran on 3 and 2, bubble on 1 and 2
C7_Witness ==
  /\ cycle = "dispatch"
  /\ pc = "root"
  /\ targetEventResponderInstances = <<1, 2, 3>>
  /\ InvokedIn("capture") = <<3, 2>>
  /\ InvokedIn("bubble") = <<1, 2>>

\* the listener recorded last, in this cycle, for an event object
RecordedListener(event) ==
  LET ks == {k \in 1..Len(emitted) : emitted[k].event = event}
      last == CHOOSE k \in ks : \A j \in ks : j <= k
  IN  emitted[last].listener
\* the emits of the cycle as the flush has to process them
DueAtFlush ==
  [k \in 1..Len(emitted) |->
     [event |-> emitted[k].event, listener |-> RecordedListener(emitted[k].event)]]

\* C8: the flush processes the events emitted in the cycle in the order of
\* their emits, each with the listener recorded for the event object; nothing
\* is handed to the batching collaborator while listeners of the cycle still
\* run or are due, nor when nothing was emitted.
C8_FlushInEnqueueOrder ==
  /\ (cycle # "none" /\ pc = "finally") =>
       /\ batch.processed = DueAtFlush
       /\ emitted = <<>> <=> batch.mode = "none"
  /\ batch.mode # "none" => (stack = <<>> /\ pc \in {"finally", "idle"})

\* a flush processed two different event objects with different listeners
C8_Witness ==
  /\ cycle = "dispatch"
  /\ pc = "finally"
  /\ batch.processed = << [event |-> "e2", listener |-> "l1"],
                          [event |-> "e1", listener |-> "l2"] >>

\* C9: the batch of a cycle runs in the interactive mode exactly when one of
\* the events emitted in that cycle was emitted discrete, wherever it stands
\* among the emits, and in the default mode when events were emitted and
\* none was discrete.
C9_DiscreteWins ==
  (cycle # "none" /\ pc = "finally") =>
    /\ batch.mode = "interactive" <=> \E k \in 1..Len(emitted) : emitted[k].discrete
    /\ batch.mode = "default" <=>
         (emitted # <<>> /\ \A k \in 1..Len(emitted) : ~emitted[k].discrete)

\* a discrete emit was followed by one that is not, and the batch of both ran
\* in the interactive mode
C9_Witness ==
  /\ cycle = "dispatch"
  /\ pc = "finally"
  /\ Len(emitted) = 2
  /\ emitted[1].discrete
  /\ ~emitted[2].discrete
  /\ batch.mode = "interactive"
  /\ Len(batch.processed) = 2

\* the timer tokens whose entry in activeTimeouts is the timeout h
TokensOf(h) == {t \in 1..timerCount : activeTimeouts[t] = h}
TimerIds(timers) == [k \in 1..Len(timers) |-> timers[k].id]
InvokedTimers ==
  LET entries == SelectSeq(log, LAMBDA e : e.phase = "timer")
  IN  [k \in 1..Len(entries) |-> entries[k].arg]

C11_CancelledNeverInvoked ==
  /\ (lastStep.op = "timer") => lastStep.arg \notin cancelled
  /\ ( /\ lastStep.op = "clearTimeout"
       /\ ~lastStep.fault
       /\ lastStep.ret
       /\ timeouts[activeTimeouts[lastStep.arg]].timers = <<>> ) =>
       timeouts[activeTimeouts[lastStep.arg]].host = "cleared"

\* C12: when unmountEventResponder runs for the instance that holds the slot,
\* it empties the slot and starts one notification pass over the registered
\* ownership listeners, and the instance is still among the ownership
\* listeners and in the buckets of its root event types until that pass is
\* over; for an instance that does not hold the slot it leaves the slot as it
\* is and starts no pass.
C12_UnmountOfHolderReleases ==
  /\ lastStep.op = "unmountOwnership" =>
       IF lastStep.owner = lastStep.inst
         THEN /\ currentOwner = Null
              /\ passes = lastStep.arg + 1
              /\ stack # <<>>
              /\ Top.kind = "notify"
              /\ Top.idx = 0
              /\ Top.list = ownershipChangeListeners
         ELSE /\ currentOwner = lastStep.owner
              /\ passes = lastStep.arg
              /\ stack = <<>>
  /\ pc = "unmountRegistries" =>
       /\ passes = IF heldBy = unmounting THEN 1 ELSE 0
       /\ currentOwner = IF heldBy = unmounting THEN Null ELSE heldBy
       /\ HasHandler(unmounting, "onOwnershipChange") =>
            unmounting \in Range(ownershipChangeListeners)
       /\ \A t \in instanceRootEventTypes[unmounting] :
            unmounting \in Range(rootEventTypesToEventComponentInstances[t])
  /\ lastStep.op = "unmountEnd" =>
       /\ passes = IF heldBy = lastStep.inst THEN 1 ELSE 0
       /\ currentOwner = IF heldBy = lastStep.inst THEN Null ELSE heldBy

\* instance 1 held the slot when it was unmounted: the one pass of the unmount
\* has notified instances 1 and 3, and the unmount has returned
C12_Witness ==
  /\ lastStep.op = "unmountEnd"
  /\ lastStep.inst = 1
  /\ heldBy = 1
  /\ passes = 1
  /\ currentOwner = Null
  /\ ownershipChangeListeners = <<3>>

\* C13: when unmountEventResponder has returned for an instance, the instance
\* is in no bucket of the root event registry and not among the ownership
\* listeners, and from then on no onRootEvent and no onOwnershipChange
\* listener is invoked on it.
C13_UnmountedLeavesRegistries ==
  /\ lastStep.op = "unmountEnd" =>
       /\ \A t \in EventTypes :
            lastStep.inst \notin Range(rootEventTypesToEventComponentInstances[t])
       /\ lastStep.inst \notin Range(ownershipChangeListeners)
  /\ (lastStep.op = "root" /\ lastStep.ret) => lifecycle[lastStep.inst] # "unmounted"
  /\ lastStep.op = "onOwnershipChange" => lifecycle[lastStep.inst] # "unmounted"

\* C14: every operation of the context that is called while the current
\* queue or the current instance is not set raises a fault and leaves the
\* state of the engine as it was.
C14_OutsideCycleFaults ==
  [][ (lastStep'.op \in ContextOperations /\ ~ValidResponderContext) =>
        (lastStep'.fault /\ UNCHANGED engineVars) ]_vars

\* C15: addRootEventTypes raises the duplicate fault exactly when one of the
\* listed types is already in the rootEventTypes set of the acting instance,
\* and a call that faults leaves the root event registry and that set as they
\* were before the call.
C15_DuplicateFaultAbortsRegistration ==
  [][ lastStep'.op = "addRootEventTypes" =>
        LET inst == lastStep'.inst
        IN  IF lastStep'.fault
              THEN UNCHANGED <<rootEventTypesToEventComponentInstances,
                               instanceRootEventTypes>>
              ELSE Cardinality(instanceRootEventTypes'[inst]) =
                     Cardinality(instanceRootEventTypes[inst]) + lastStep'.arg ]_vars

\* C16: a throw out of a phase listener does not end the cycle: the
\* traversal goes on with the remaining instances, and when the cycle is over
\* every event emitted in it, before or after the throw, was handed to its
\* listener by the flush.
C16_PhaseFaultIsolated ==
  /\ (lastStep.op = "throw" /\ lastStep.arg = 1) => cycle = "dispatch"
  /\ (cycle = "none" /\ pc = "idle") => batch.processed = DueAtFlush

\* C17: in every notification pass an onOwnershipChange listener is invoked
\* with its instance as the current instance and with a current queue, so
\* that hasOwnership called by the listener raises no fault and returns
\* whether that instance holds the slot.
C17_NotifiedInsideCycle ==
  /\ lastStep.op = "onOwnershipChange" =>
       (currentInstance = lastStep.inst /\ ValidResponderContext)
  /\ (lastStep.op = "hasOwnership" /\ Top.kind = "ownership") =>
       /\ ~lastStep.fault
       /\ lastStep.inst = Top.inst
       /\ lastStep.ret = (currentOwner = Top.inst)

\* C18: setTimeout attaches the new timer to a group whose host timer is
\* pending, never to a group that lost its last entry; and a group whose
\* entries were all cancelled has no pending host timer.
C18_AttachedToPendingGroup ==
  /\ (lastStep.op = "setTimeout" /\ ~lastStep.fault) =>
       timeouts[activeTimeouts[lastStep.arg]].host = "pending"
  /\ \A h \in 1..Len(timeouts) :
       timeouts[h].timers = <<>> => timeouts[h].host # "pending"

\* C19: when the firing of a group invokes the callback of a timer, the
\* token of that timer is no longer in the token lookup, and a clearTimeout
\* that the callback calls with its own token changes nothing.
C19_EntryRemovedBeforeCallback ==
  [][ /\ lastStep'.op = "timer" => activeTimeouts'[lastStep'.arg] = Null
      /\ ( /\ lastStep'.op = "clearTimeout"
           /\ ~lastStep'.fault
           /\ stack # <<>>
           /\ stack[1].kind = "timer"
           /\ stack[1].idx = lastStep'.arg ) => UNCHANGED timeouts ]_vars

\* C20: every timer that setTimeout created is cancelled by clearTimeout
\* or has, in the end, had its callback invoked by the firing of its group.
C20_EveryTimerFires ==
  \A t \in Tokens :
    (t <= timerCount) ~> (t \in cancelled \/ activeTimeouts[t] = Null)

\* C21: when the per-cycle state of a cycle is torn down after its callbacks
\* have returned, be it a dispatch, a firing of timers or the cycle of
\* onUnmount, every event emitted in the cycle was handed once, in the flush,
\* to the listener recorded for it.
C21_NoEmittedEventLost ==
  lastStep.op \in {"finally", "unmountFinally"} => batch.processed = DueAtFlush

\* C22: once unmountEventResponder has returned for an instance, no listener
\* of a phase, no onOwnershipChange listener and no timer callback is invoked
\* on that instance, and the instance performs no operation of the context.
C22_NoCallbackAfterUnmount ==
  /\ ( \/ lastStep.op \in {"capture", "bubble", "root", "timer"} /\ lastStep.ret
       \/ lastStep.op = "onOwnershipChange" ) =>
       lifecycle[lastStep.inst] # "unmounted"
  /\ (lastStep.op \in ContextOperations /\ lastStep.inst \in Instances) =>
       lifecycle[lastStep.inst] # "unmounted"

\* C23: while no unmountEventResponder call is in progress, the slot is
\* empty or holds an instance for which unmountEventResponder has not
\* returned.
C23_OwnerIsMounted ==
  (unmounting = Null /\ currentOwner # Null) => lifecycle[currentOwner] # "unmounted"

====
